---- MODULE Spec2Model ----
(***************************************************************************)
(* Model of SEOContentBriefGenerator (src/app.py): one run of              *)
(* generate_seo_content_brief, from the SERP request to the content brief. *)
(*                                                                         *)
(* A Python string is a sequence of one-character strings, so that         *)
(* substring tests, slicing, lower(), title() and the \w+ tokenizer are    *)
(* computed character by character as Python computes them.  A dict is a   *)
(* sequence of entries in insertion order; None is the empty tuple and a   *)
(* value v that may be None is carried as <<v>>.                           *)
(*                                                                         *)
(* Left out, as nothing below reads them: the "content" and "answer"       *)
(* filler texts of outline sections and FAQ entries, common_url_patterns,  *)
(* key_topics and the Streamlit rendering.                                 *)
(***************************************************************************)
EXTENDS Integers, Sequences, FiniteSets, TLC

(***************************************************************************)
(* Python string primitives                                                *)
(***************************************************************************)
UpperChars == <<"A","B","C","D","E","F","G","H","I","J","K","L","M","N","O","P","Q","R","S","T","U","V","W","X","Y","Z">>
LowerChars == <<"a","b","c","d","e","f","g","h","i","j","k","l","m","n","o","p","q","r","s","t","u","v","w","x","y","z">>
DigitChars == <<"0","1","2","3","4","5","6","7","8","9">>

IsUpper(c) == \E i \in DOMAIN UpperChars : UpperChars[i] = c
IsLower(c) == \E i \in DOMAIN LowerChars : LowerChars[i] = c
IsAlpha(c) == IsUpper(c) \/ IsLower(c)
IsDigit(c) == \E i \in DOMAIN DigitChars : DigitChars[i] = c
\* \w of the regular expressions
IsWordChar(c) == IsAlpha(c) \/ IsDigit(c) \/ c = "_"
IsSpace(c) == c \in {" ", "\t", "\n", "\r"}

LowerChar(c) ==
    IF IsUpper(c) THEN LowerChars[CHOOSE i \in DOMAIN UpperChars : UpperChars[i] = c] ELSE c
UpperChar(c) ==
    IF IsLower(c) THEN UpperChars[CHOOSE i \in DOMAIN LowerChars : LowerChars[i] = c] ELSE c

\* a sequence given as a function of its positions, made explicit element by element
Explicit(f) == SubSeq(f, 1, Len(f))

\* str.lower()
Lower(s) == Explicit([i \in 1..Len(s) |-> LowerChar(s[i])])

\* str.title(): a letter is upper-cased when no letter precedes it, lower-cased otherwise
TitleCase(s) ==
    Explicit([i \in 1..Len(s) |->
        IF i = 1 \/ ~IsAlpha(s[i - 1]) THEN UpperChar(s[i]) ELSE LowerChar(s[i])])

\* s[:n]
Prefix(s, n) == SubSeq(s, 1, IF n < Len(s) THEN n ELSE Len(s))

\* pat in text
Contains(text, pat) ==
    \E i \in 1..(Len(text) - Len(pat) + 1) : SubSeq(text, i, i + Len(pat) - 1) = pat

\* str.strip()
RECURSIVE LStrip(_)
LStrip(s) == IF s # <<>> /\ IsSpace(Head(s)) THEN LStrip(Tail(s)) ELSE s
RECURSIVE RStrip(_)
RStrip(s) ==
    IF s # <<>> /\ IsSpace(s[Len(s)]) THEN RStrip(SubSeq(s, 1, Len(s) - 1)) ELSE s
Strip(s) == RStrip(LStrip(s))

\* sep.join(parts)
RECURSIVE Join(_, _)
Join(sep, parts) ==
    IF parts = <<>> THEN <<>>
    ELSE IF Len(parts) = 1 THEN parts[1]
    ELSE parts[1] \o sep \o Join(sep, Tail(parts))

\* the maximal runs of the positions of s that mask marks, left to right
RECURSIVE Runs(_, _, _)
Runs(s, mask, from) ==
    LET starts == {i \in from..Len(s) : mask[i]}
    IN  IF starts = {} THEN <<>>
        ELSE LET first == CHOOSE i \in starts : \A j \in starts : i <= j
                 last == CHOOSE i \in first..Len(s) :
                            /\ \A j \in first..i : mask[j]
                            /\ (i = Len(s) \/ ~mask[i + 1])
             IN  <<SubSeq(s, first, last)>> \o Runs(s, mask, last + 1)

\* re.findall(r'\b\w+\b', s): the maximal runs of word characters
FindWords(s) == Runs(s, Explicit([i \in 1..Len(s) |-> IsWordChar(s[i])]), 1)

\* str.split(): the maximal runs of non-whitespace characters
Split(s) == Runs(s, Explicit([i \in 1..Len(s) |-> ~IsSpace(s[i])]), 1)

\* whether x is an element of the list xs
InList(x, xs) == \E i \in DOMAIN xs : xs[i] = x

\* Counter(xs): the distinct elements in first-seen order, each with its count
RECURSIVE CounterFrom(_, _, _)
CounterFrom(xs, i, acc) ==
    IF i > Len(xs) THEN acc
    ELSE IF \E j \in DOMAIN acc : acc[j].key = xs[i]
         THEN LET at == CHOOSE j \in DOMAIN acc : acc[j].key = xs[i]
              IN  CounterFrom(xs, i + 1, [acc EXCEPT ![at].count = @ + 1])
         ELSE CounterFrom(xs, i + 1, Append(acc, [key |-> xs[i], count |-> 1]))
Counter(xs) == CounterFrom(xs, 1, <<>>)

\* variant: the items are left in first-seen order
SortByCountUnsorted(items) == items

\* sorted(items, key=count, reverse=True): stable, so equal counts keep first-seen order
RECURSIVE SortByCount(_)
SortByCount(items) ==
    IF items = <<>> THEN <<>>
    ELSE LET m == CHOOSE i \in DOMAIN items :
                    /\ \A j \in DOMAIN items : items[j].count <= items[i].count
                    /\ \A j \in 1..(i - 1) : items[j].count < items[i].count
         IN  <<items[m]>> \o
             SortByCount(SubSeq(items, 1, m - 1) \o SubSeq(items, m + 1, Len(items)))

\* Counter(xs).most_common(n)
MostCommon(xs, n) == Prefix(SortByCount(Counter(xs)), n)

\* [key for key, count in pairs]
Keys(pairs) == [i \in DOMAIN pairs |-> pairs[i].key]

(***************************************************************************)
(* analyze_search_intent                                                   *)
(***************************************************************************)
\* the keys of intent_keywords in their insertion (iteration) order
IntentOrder == <<"informational", "commercial", "transactional", "navigational">>
IntentSet == {IntentOrder[i] : i \in DOMAIN IntentOrder}

intent_keywords ==
    [informational |-> <<<<"h","o","w"," ","t","o">>, <<"w","h","a","t"," ","i","s">>, <<"w","h","y">>, <<"g","u","i","d","e">>, <<"t","u","t","o","r","i","a","l">>,
                         <<"w","a","y","s"," ","t","o">>, <<"t","i","p","s">>, <<"l","e","a","r","n">>>>,
     commercial |-> <<<<"b","e","s","t">>, <<"r","e","v","i","e","w">>, <<"c","o","m","p","a","r","i","s","o","n">>, <<"v","s">>, <<"t","o","p">>, <<"r","a","t","i","n","g">>,
                      <<"b","u","y">>>>,
     transactional |-> <<<<"b","u","y">>, <<"p","u","r","c","h","a","s","e">>, <<"o","r","d","e","r">>, <<"d","e","a","l">>, <<"d","i","s","c","o","u","n","t">>,
                         <<"c","h","e","a","p">>, <<"p","r","i","c","e">>>>,
     navigational |-> <<<<"l","o","g","i","n">>, <<"s","i","g","n","i","n">>, <<"o","f","f","i","c","i","a","l">>, <<"w","e","b","s","i","t","e">>, <<"a","p","p">>,
                        <<"d","o","w","n","l","o","a","d">>>>]

\* text_to_analyze of one organic result
TextToAnalyze(result) == Lower(result.title \o <<" ">> \o result.meta_description)

\* for keyword in keywords: if keyword in text_to_analyze: intent_scores[intent] += 1
RECURSIVE KeywordHits(_, _, _)
KeywordHits(text, keywords, k) ==
    IF k > Len(keywords) THEN 0
    ELSE (IF Contains(text, keywords[k]) THEN 1 ELSE 0) + KeywordHits(text, keywords, k + 1)

\* variant: a result counts once per intent however many of its keywords it holds
ResultHitsOnce(result, intent) ==
    IF KeywordHits(TextToAnalyze(result), intent_keywords[intent], 1) > 0 THEN 1 ELSE 0

\* what one result adds to the score of one intent
ResultHits(result, intent) == KeywordHits(TextToAnalyze(result), intent_keywords[intent], 1)

\* the outer loop over serp_data["organic_results"]
RECURSIVE ScoreFrom(_, _, _)
ScoreFrom(results, intent, i) ==
    IF i > Len(results) THEN 0
    ELSE ResultHits(results[i], intent) + ScoreFrom(results, intent, i + 1)

IntentScores(results) == [intent \in IntentSet |-> ScoreFrom(results, intent, 1)]

\* variant: a later key replaces an equal one, so the last maximum wins
MaxReplacesTie(candidate, best) == candidate >= best

\* whether max() replaces the best key seen so far by the next key
MaxReplaces(candidate, best) == candidate > best

\* max(intent_scores, key=intent_scores.get): the keys in iteration order, the first
\* one kept unless a later one is strictly greater
RECURSIVE MaxKeyFrom(_, _, _)
MaxKeyFrom(scores, i, best) ==
    IF i > Len(IntentOrder) THEN best
    ELSE MaxKeyFrom(scores, i + 1,
            IF MaxReplaces(scores[IntentOrder[i]], scores[best]) THEN IntentOrder[i] ELSE best)

\* variant: no label when nothing matched
DominantIntentNoSignal(scores) ==
    IF \A intent \in IntentSet : scores[intent] = 0 THEN "other"
    ELSE MaxKeyFrom(scores, 2, IntentOrder[1])

DominantIntent(scores) == MaxKeyFrom(scores, 2, IntentOrder[1])

MostCommonTitleWords == 10
MostCommonDescWords == 10

\* [result[field] for result in organic_results]
Titles(results) == [i \in DOMAIN results |-> results[i].title]
Descriptions(results) == [i \in DOMAIN results |-> results[i].meta_description]

AnalyzeSearchIntent(serp) ==
    LET results == serp.organic_results
        scores == IntentScores(results)
    IN  [dominant_intent |-> DominantIntent(scores),
         intent_scores |-> scores,
         common_title_words |->
            MostCommon(FindWords(Lower(Join(<<" ">>, Titles(results)))), MostCommonTitleWords),
         common_description_words |->
            MostCommon(FindWords(Lower(Join(<<" ">>, Descriptions(results)))),
                       MostCommonDescWords),
         paa_questions |-> serp.paa_questions]

(***************************************************************************)
(* extract_headings_from_url, analyze_competitor_headings                  *)
(***************************************************************************)
Levels == <<"h1", "h2", "h3", "h4", "h5", "h6">>
LevelSet == {Levels[i] : i \in DOMAIN Levels}

\* {"h1": [], "h2": [], "h3": [], "h4": [], "h5": [], "h6": []}
EmptyHeadings == [level \in LevelSet |-> <<>>]

\* variant: the texts are stripped and all kept, the empty ones too
RECURSIVE FindAllKeepEmpty(_, _, _)
FindAllKeepEmpty(page, level, i) ==
    IF i > Len(page) THEN <<>>
    ELSE (IF page[i].tag = level THEN <<Strip(page[i].text)>> ELSE <<>>)
         \o FindAllKeepEmpty(page, level, i + 1)

\* soup.find_all(level) over a page given as its heading tags in document order,
\* each text stripped and kept when non-empty
RECURSIVE FindAll(_, _, _)
FindAll(page, level, i) ==
    IF i > Len(page) THEN <<>>
    ELSE (IF page[i].tag = level /\ Strip(page[i].text) # <<>>
          THEN <<Strip(page[i].text)>> ELSE <<>>) \o FindAll(page, level, i + 1)

ExtractHeadings(page) == [level \in LevelSet |-> FindAll(page, level, 1)]

\* competitor_headings[url] = headings on a dict kept as its entries in insertion
\* order: an existing key keeps its place and takes the new value
DictSet(dict, url, headings) ==
    IF \E i \in DOMAIN dict : dict[i].url = url
    THEN LET at == CHOOSE i \in DOMAIN dict : dict[i].url = url
         IN  [dict EXCEPT ![at].headings = headings]
    ELSE Append(dict, [url |-> url, headings |-> headings])

DictHas(dict, url) == \E i \in DOMAIN dict : dict[i].url = url
DictGet(dict, url) == dict[CHOOSE i \in DOMAIN dict : dict[i].url = url].headings

\* all_headings[level].extend(headings[level]) for every entry, in dict order
RECURSIVE PoolLevel(_, _, _)
PoolLevel(dict, level, i) ==
    IF i > Len(dict) THEN <<>>
    ELSE dict[i].headings[level] \o PoolLevel(dict, level, i + 1)

MostCommonHeadings == 10

\* common_headings: a key for each level whose pooled list is not empty
CommonHeadings(all_headings) ==
    [level \in {l \in LevelSet : all_headings[l] # <<>>} |->
        MostCommon(all_headings[level], MostCommonHeadings)]

\* None (<<>>) when self.competitor_headings is empty
AnalyzeCompetitorHeadings(dict) ==
    IF dict = <<>> THEN <<>>
    ELSE LET all_headings == [level \in LevelSet |-> PoolLevel(dict, level, 1)]
         IN  <<[all_headings |-> all_headings,
                common_headings |-> CommonHeadings(all_headings)]>>

(***************************************************************************)
(* generate_content_brief and its helpers                                  *)
(***************************************************************************)
power_words ==
    [informational |-> <<<<"U","l","t","i","m","a","t","e">>, <<"C","o","m","p","l","e","t","e">>, <<"C","o","m","p","r","e","h","e","n","s","i","v","e">>, <<"D","e","f","i","n","i","t","i","v","e">>,
                         <<"E","s","s","e","n","t","i","a","l">>>>,
     commercial |-> <<<<"B","e","s","t">>, <<"T","o","p">>, <<"P","r","e","m","i","u","m">>, <<"R","e","v","i","e","w">>, <<"C","o","m","p","a","r","i","s","o","n">>>>,
     transactional |-> <<<<"B","u","y">>, <<"P","u","r","c","h","a","s","e">>, <<"D","e","a","l">>, <<"D","i","s","c","o","u","n","t">>, <<"A","f","f","o","r","d","a","b","l","e">>>>,
     navigational |-> <<<<"O","f","f","i","c","i","a","l">>, <<"L","o","g","i","n">>, <<"A","c","c","e","s","s">>, <<"D","o","w","n","l","o","a","d">>, <<"S","i","g","n"," ","U","p">>>>]

\* variant: an unknown label falls back on the informational words
PowerWordNoDefault(intent) ==
    IF intent \in DOMAIN power_words THEN power_words[intent][1]
    ELSE power_words["informational"][1]

\* power_words.get(dominant_intent, ["Guide"])[0]
PowerWord(intent) ==
    IF intent \in DOMAIN power_words THEN power_words[intent][1] ELSE <<"G","u","i","d","e">>

\* [x for x in xs if keep(x)], keep being membership outside the list banned
RECURSIVE NotIn(_, _)
NotIn(xs, banned) ==
    IF xs = <<>> THEN <<>>
    ELSE (IF InList(Lower(Head(xs)), banned) THEN <<>> ELSE <<Head(xs)>>)
         \o NotIn(Tail(xs), banned)

TitleWordsUsed == 3

\* the common title words that are not words of the keyword
TitleCommonWords(keyword, intent_analysis) ==
    LET kws == Split(keyword)
    IN  NotIn(Keys(Prefix(intent_analysis.common_title_words, TitleWordsUsed)),
              [i \in DOMAIN kws |-> Lower(kws[i])])

GenerateTitleSuggestion(keyword, intent_analysis) ==
    LET power_word == PowerWord(intent_analysis.dominant_intent)
        common_words == TitleCommonWords(keyword, intent_analysis)
    IN  IF common_words # <<>>
        THEN power_word \o <<" ">> \o TitleCase(common_words[1]) \o <<" ","f","o","r"," ">> \o keyword
             \o <<":"," ">>
             \o (IF Len(common_words) > 1 THEN TitleCase(common_words[2]) ELSE <<"C","o","m","p","l","e","t","e">>)
             \o <<" ","G","u","i","d","e">>
        ELSE power_word \o <<" ","G","u","i","d","e"," ","t","o"," ">> \o keyword \o <<":"," ","E","v","e","r","y","t","h","i","n","g"," ","Y","o","u"," ","N","e","e","d"," ","t","o"," ","K","n","o","w">>

DescWordsUsed == 5
MetaDescLimit == 160
MetaDescKept == 157

\* the f-string of the dominant intent, before the length cap
MetaTemplate(keyword, intent_analysis) ==
    LET dominant_intent == intent_analysis.dominant_intent
        common_words == Keys(Prefix(intent_analysis.common_description_words, DescWordsUsed))
    IN  IF dominant_intent = "informational"
        THEN <<"L","o","o","k","i","n","g"," ","f","o","r"," ","i","n","f","o","r","m","a","t","i","o","n"," ","a","b","o","u","t"," ">> \o keyword
             \o <<"?"," ","O","u","r"," ","c","o","m","p","r","e","h","e","n","s","i","v","e"," ","g","u","i","d","e"," ","c","o","v","e","r","s"," ","e","v","e","r","y","t","h","i","n","g"," ","y","o","u"," ","n","e","e","d"," ","t","o"," ","k","n","o","w","."," ","L","e","a","r","n"," ","a","b","o","u","t"," ">>
             \o Join(<<","," ">>, Prefix(common_words, 3)) \o <<" ","a","n","d"," ","m","o","r","e",".">>
        ELSE IF dominant_intent = "commercial"
        THEN <<"S","e","a","r","c","h","i","n","g"," ","f","o","r"," ","t","h","e"," ","b","e","s","t"," ">> \o keyword
             \o <<"?"," ","W","e","'","v","e"," ","r","e","v","i","e","w","e","d"," ","a","n","d"," ","c","o","m","p","a","r","e","d"," ","t","h","e"," ","t","o","p"," ","o","p","t","i","o","n","s","."," ","F","i","n","d"," ","o","u","t"," ","w","h","i","c","h"," ">>
             \o (IF common_words # <<>> THEN common_words[1] ELSE <<"p","r","o","d","u","c","t">>)
             \o <<" ","i","s"," ","r","i","g","h","t"," ","f","o","r"," ","y","o","u",".">>
        ELSE IF dominant_intent = "transactional"
        THEN <<"R","e","a","d","y"," ","t","o"," ","b","u","y"," ">> \o keyword \o <<"?"," ","F","i","n","d"," ","t","h","e"," ","b","e","s","t"," ","d","e","a","l","s"," ","a","n","d"," ","p","r","i","c","e","s"," ","o","n"," ">>
             \o (IF common_words # <<>> THEN common_words[1] ELSE <<"q","u","a","l","i","t","y"," ","p","r","o","d","u","c","t","s">>)
             \o <<"."," ","S","h","o","p"," ","n","o","w"," ","a","n","d"," ","s","a","v","e","!">>
        ELSE <<"L","o","o","k","i","n","g"," ","f","o","r"," ","t","h","e"," ","o","f","f","i","c","i","a","l"," ">> \o keyword \o <<" ","w","e","b","s","i","t","e","?"," ","F","i","n","d"," ","d","i","r","e","c","t"," ","a","c","c","e","s","s"," ","t","o"," ">>
             \o (IF common_words # <<>> THEN Join(<<","," ">>, Prefix(common_words, 2))
                 ELSE <<"t","h","e"," ","r","e","s","o","u","r","c","e","s"," ","y","o","u"," ","n","e","e","d">>)
             \o <<" ","h","e","r","e",".">>

\* variant: the cut keeps 160 characters before the ellipsis
CapMetaDescLate(meta_desc) ==
    IF Len(meta_desc) > MetaDescLimit THEN Prefix(meta_desc, MetaDescLimit) \o <<".",".",".">>
    ELSE meta_desc

\* if len(meta_desc) > 160: meta_desc = meta_desc[:157] + "..."
CapMetaDesc(meta_desc) ==
    IF Len(meta_desc) > MetaDescLimit THEN Prefix(meta_desc, MetaDescKept) \o <<".",".",".">>
    ELSE meta_desc

GenerateMetaDescriptionSuggestion(keyword, intent_analysis) ==
    CapMetaDesc(MetaTemplate(keyword, intent_analysis))

CommonH2Used == 5

\* common_h2s of _generate_content_outline; headings_analysis is None (<<>>) or <<analysis>>
CommonH2s(headings_analysis) ==
    IF headings_analysis # <<>> /\ "h2" \in DOMAIN headings_analysis[1].common_headings
    THEN Keys(Prefix(headings_analysis[1].common_headings["h2"], CommonH2Used))
    ELSE <<>>

Section(h2, subsections) == [h2 |-> h2, subsections |-> subsections]

\* the sections the outline starts with: the introduction, then those of the intent
TemplateSections(keyword, dominant_intent) ==
    <<Section(<<"I","n","t","r","o","d","u","c","t","i","o","n"," ","t","o"," ">> \o keyword, <<>>)>> \o
    (IF dominant_intent = "informational"
    THEN <<Section(<<"W","h","a","t"," ","I","s"," ">> \o keyword \o <<"?">>,
                   <<<<"K","e","y"," ","C","o","m","p","o","n","e","n","t","s"," ","o","f"," ">> \o keyword, <<"H","o","w"," ">> \o keyword \o <<" ","W","o","r","k","s">>>>),
           Section(<<"B","e","n","e","f","i","t","s"," ","o","f"," ">> \o keyword, <<<<"P","r","i","m","a","r","y"," ","B","e","n","e","f","i","t","s">>, <<"S","e","c","o","n","d","a","r","y"," ","B","e","n","e","f","i","t","s">>>>),
           Section(<<"C","o","m","m","o","n"," ","C","h","a","l","l","e","n","g","e","s"," ","w","i","t","h"," ">> \o keyword, <<>>)>>
    ELSE IF dominant_intent = "commercial"
    THEN <<Section(<<"T","o","p"," ">> \o keyword \o <<" ","O","p","t","i","o","n","s">>,
                   <<<<"B","e","s","t"," ","O","v","e","r","a","l","l">>, <<"B","e","s","t"," ","V","a","l","u","e">>, <<"P","r","e","m","i","u","m"," ","C","h","o","i","c","e">>>>),
           Section(<<"C","o","m","p","a","r","i","s","o","n"," ","o","f"," ">> \o keyword \o <<" ","F","e","a","t","u","r","e","s">>,
                   <<<<"F","e","a","t","u","r","e"," ","C","o","m","p","a","r","i","s","o","n"," ","T","a","b","l","e">>, <<"P","e","r","f","o","r","m","a","n","c","e"," ","A","n","a","l","y","s","i","s">>>>),
           Section(<<"P","r","o","s"," ","a","n","d"," ","C","o","n","s">>, <<>>)>>
    ELSE IF dominant_intent = "transactional"
    THEN <<Section(<<"W","h","e","r","e"," ","t","o"," ","B","u","y"," ">> \o keyword,
                   <<<<"O","f","f","i","c","i","a","l"," ","R","e","t","a","i","l","e","r","s">>, <<"O","n","l","i","n","e"," ","M","a","r","k","e","t","p","l","a","c","e","s">>>>),
           Section(<<"C","u","r","r","e","n","t"," ","D","e","a","l","s"," ","a","n","d"," ","D","i","s","c","o","u","n","t","s">>, <<<<"S","e","a","s","o","n","a","l"," ","S","a","l","e","s">>, <<"C","o","u","p","o","n"," ","C","o","d","e","s">>>>),
           Section(<<"P","r","i","c","e"," ","C","o","m","p","a","r","i","s","o","n">>, <<>>)>>
    ELSE <<Section(<<"H","o","w"," ","t","o"," ","A","c","c","e","s","s"," ">> \o keyword,
                   <<<<"D","i","r","e","c","t"," ","L","i","n","k">>, <<"A","l","t","e","r","n","a","t","i","v","e"," ","A","c","c","e","s","s"," ","M","e","t","h","o","d","s">>>>),
           Section(<<"A","c","c","o","u","n","t"," ","S","e","t","u","p">>, <<>>),
           Section(<<"T","r","o","u","b","l","e","s","h","o","o","t","i","n","g"," ","A","c","c","e","s","s"," ","I","s","s","u","e","s">>, <<>>)>>)

\* variant: every branch closes with the section of the first branch
ClosingSectionAlwaysConclusion(dominant_intent) == Section(<<"C","o","n","c","l","u","s","i","o","n">>, <<>>)

\* the section every branch appends last
ClosingSection(dominant_intent) ==
    IF dominant_intent = "informational" THEN Section(<<"C","o","n","c","l","u","s","i","o","n">>, <<>>)
    ELSE IF dominant_intent = "commercial" THEN Section(<<"F","i","n","a","l"," ","R","e","c","o","m","m","e","n","d","a","t","i","o","n">>, <<>>)
    ELSE IF dominant_intent = "transactional" THEN Section(<<"B","e","s","t"," ","V","a","l","u","e"," ","f","o","r"," ","M","o","n","e","y">>, <<>>)
    ELSE Section(<<"G","e","t","t","i","n","g"," ","S","t","a","r","t","e","d">>, <<>>)

\* for h2 in common_h2s: append it unless a section already has that title
RECURSIVE AddCommonH2s(_, _)
AddCommonH2s(sections, h2s) ==
    IF h2s = <<>> THEN sections
    ELSE AddCommonH2s(
            IF \E i \in DOMAIN sections : sections[i].h2 = Head(h2s) THEN sections
            ELSE Append(sections, Section(Head(h2s), <<>>)),
            Tail(h2s))

\* variant: the h1 is the bare keyword
OutlineH1Bare(keyword) == keyword

\* the "h1" of the outline
OutlineH1(keyword) == <<"T","h","e"," ","U","l","t","i","m","a","t","e"," ","G","u","i","d","e"," ","t","o"," ">> \o keyword

GenerateContentOutline(keyword, intent_analysis, headings_analysis) ==
    LET dominant_intent == intent_analysis.dominant_intent
    IN  [h1 |-> OutlineH1(keyword),
         sections |->
            Append(AddCommonH2s(TemplateSections(keyword, dominant_intent),
                                CommonH2s(headings_analysis)),
                   ClosingSection(dominant_intent))]

FaqQuestionsUsed == 5

\* variant: the slice is one entry too long
FaqQuestionsOneMore(paa_questions) == Prefix(paa_questions, FaqQuestionsUsed + 1)

\* the "questions" of the FAQ section: paa_questions[:5], also when the list is empty
FaqQuestions(paa_questions) == Prefix(paa_questions, FaqQuestionsUsed)

GenerateFaqSection(paa_questions) ==
    [h2 |-> <<"F","r","e","q","u","e","n","t","l","y"," ","A","s","k","e","d"," ","Q","u","e","s","t","i","o","n","s">>, questions |-> FaqQuestions(paa_questions)]

\* None (<<>>) without serp_data or intent_analysis, else <<brief>>
GenerateContentBrief(keyword, serp, intent_analysis, headings_analysis) ==
    IF serp = <<>> \/ intent_analysis = <<>> THEN <<>>
    ELSE <<[keyword |-> keyword,
            title_suggestion |-> GenerateTitleSuggestion(keyword, intent_analysis[1]),
            meta_description_suggestion |->
                GenerateMetaDescriptionSuggestion(keyword, intent_analysis[1]),
            search_intent_analysis |->
                [dominant_intent |-> intent_analysis[1].dominant_intent,
                 intent_scores |-> intent_analysis[1].intent_scores],
            content_outline |->
                GenerateContentOutline(keyword, intent_analysis[1], headings_analysis),
            faq_section |-> GenerateFaqSection(intent_analysis[1].paa_questions),
            common_headings |->
                IF headings_analysis # <<>> THEN headings_analysis[1].common_headings
                ELSE <<>>]>>

\* the outline as display_content_brief walks it: the h1, then each section's h2
\* followed by its h3 subsections
RECURSIVE SectionNodes(_)
SectionNodes(sections) ==
    IF sections = <<>> THEN <<>>
    ELSE <<[level |-> 2, title |-> Head(sections).h2]>>
         \o [i \in DOMAIN Head(sections).subsections |->
                [level |-> 3, title |-> Head(sections).subsections[i]]]
         \o SectionNodes(Tail(sections))
OutlineNodes(outline) == <<[level |-> 1, title |-> outline.h1]>> \o SectionNodes(outline.sections)

(***************************************************************************)
(* Inputs: what the SERP provider and the competitor sites may answer      *)
(***************************************************************************)
\* every sequence over S of length at most n
SeqsUpTo(S, n) == UNION {[1..k -> S] : k \in 0..n}

Result(title, snippet, link) == [title |-> title, meta_description |-> snippet, url |-> link]

RunKeyword == <<"s","e","o"," ","t","i","p","s">>

MaxResults == 2
UrlA == "https://a.example/seo"
UrlB == "https://b.example/"
\* organic results of a response; two of them carry the same link, one has no
\* title, snippet or link (the "" defaults of result.get)
ResultInputs ==
    {Result(<<"B","e","s","t"," ","S","E","O"," ","T","i","p","s">>, <<"h","o","w"," ","t","o"," ","r","a","n","k">>, UrlA),
     Result(<<"B","u","y"," ","c","h","e","a","p"," ","t","o","o","l","s">>, <<>>, UrlB),
     Result(<<"S","E","O"," ","g","u","i","d","e">>, <<"t","o","p"," ","t","i","p","s">>, UrlA),
     Result(<<>>, <<>>, "")}

\* related_questions of a response
PaaInputs == {<<>>, <<<<"w","h","a","t"," ","i","s"," ","s","e","o">>>>, <<<<"w","h","y"," ","s","e","o">>, <<"w","h","a","t"," ","i","s"," ","s","e","o">>>>}

Tag(tag, text) == [tag |-> tag, text |-> text]
\* the heading tags of a fetched page, in document order
PageInputs ==
    {<<Tag("h2", <<" ","I","n","t","r","o"," ">>), Tag("h1", <<"S","E","O">>), Tag("h3", <<" "," ">>), Tag("h2", <<"P","r","i","c","i","n","g">>)>>,
     <<Tag("h2", <<"C","o","n","c","l","u","s","i","o","n">>), Tag("h3", <<"T","o","o","l","s">>), Tag("h2", <<"P","r","i","c","i","n","g">>)>>}

(***************************************************************************)
(* State                                                                   *)
(***************************************************************************)
VARIABLES
    pc,                   \* where generate_seo_content_brief stands
    keyword,              \* its argument
    serp_data,            \* None or <<serp_data>>
    intent_analysis,      \* None or <<intent_analysis>>
    idx,                  \* position of the loop of extract_competitor_headings
    competitor_headings,  \* the dict url -> headings
    headings_analysis,    \* None or <<headings_analysis>>
    content_brief,        \* the returned value: None or <<brief>>
    serp_requests,        \* number of GETs sent to the SERP provider
    page_requests         \* the GETs sent to competitor pages, in order, each with its
                          \* outcome, the heading tags of the page received and the
                          \* headings extract_headings_from_url returned

vars == <<pc, keyword, serp_data, intent_analysis, idx, competitor_headings,
          headings_analysis, content_brief, serp_requests, page_requests>>

Init ==
    /\ pc = "collect"
    /\ keyword = RunKeyword
    /\ serp_data = <<>>
    /\ intent_analysis = <<>>
    /\ idx = 1
    /\ competitor_headings = <<>>
    /\ headings_analysis = <<>>
    /\ content_brief = <<>>
    /\ serp_requests = 0
    /\ page_requests = <<>>

MaxSerpResults == 10

\* collect_serp_data on a response that parses: the first ten organic results
CollectSerpData(kw, organic, related) ==
    [keyword |-> kw,
     organic_results |-> Prefix(organic, MaxSerpResults),
     paa_questions |-> related]

\* variant: the request is sent again
PcAfterSerpFailureRetry == "collect"

\* where the run goes when collect_serp_data returned None
PcAfterSerpFailure == "done"

\* Step 1, the request answered and parsed
CollectSerpOk ==
    /\ pc = "collect"
    /\ \E organic \in SeqsUpTo(ResultInputs, MaxResults), related \in PaaInputs :
          serp_data' = <<CollectSerpData(keyword, organic, related)>>
    /\ serp_requests' = serp_requests + 1
    /\ pc' = "intent"
    /\ UNCHANGED <<keyword, intent_analysis, idx, competitor_headings, headings_analysis,
                   content_brief, page_requests>>

\* Step 1, the request or the parsing of its answer raising: None is returned
CollectSerpFail ==
    /\ pc = "collect"
    /\ serp_requests' = serp_requests + 1
    /\ serp_data' = <<>>
    /\ content_brief' = <<>>
    /\ pc' = PcAfterSerpFailure
    /\ UNCHANGED <<keyword, intent_analysis, idx, competitor_headings, headings_analysis,
                   page_requests>>

\* Step 2: analyze_search_intent
AnalyzeSearchIntentStep ==
    /\ pc = "intent"
    /\ intent_analysis' =
          IF serp_data = <<>> THEN <<>> ELSE <<AnalyzeSearchIntent(serp_data[1])>>
    /\ idx' = 1
    /\ competitor_headings' = <<>>
    /\ pc' = "extract"
    /\ UNCHANGED <<keyword, serp_data, headings_analysis, content_brief, serp_requests,
                   page_requests>>

\* extract_headings_from_url: the headings of the page, or the empty set when the
\* request or the parsing raised
ExtractHeadingsFromUrl(ok, page) == IF ok THEN ExtractHeadings(page) ELSE EmptyHeadings

\* variant: a failed page is fetched again
IdxAfterFetchRetry(i, ok) == IF ok THEN i + 1 ELSE i

\* the loop of extract_competitor_headings moves to the next result
IdxAfterFetch(i, ok) == i + 1

\* where the run stands after one page
PcAfterFetch(ok) == "extract"

OrganicResults == IF serp_data = <<>> THEN <<>> ELSE serp_data[1].organic_results

\* Step 4, one iteration of the loop: fetch the page of result idx and record it
ExtractPage(ok, page) ==
    /\ pc = "extract"
    /\ idx <= Len(OrganicResults)
    /\ LET url == OrganicResults[idx].url
           headings == ExtractHeadingsFromUrl(ok, page)
       IN  /\ page_requests' =
                 Append(page_requests,
                        [url |-> url, ok |-> ok, page |-> page, headings |-> headings])
           /\ competitor_headings' = DictSet(competitor_headings, url, headings)
    /\ idx' = IdxAfterFetch(idx, ok)
    /\ pc' = PcAfterFetch(ok)
    /\ UNCHANGED <<keyword, serp_data, intent_analysis, headings_analysis, content_brief,
                   serp_requests>>

\* a page is fetched and parsed; requests.get raises on the empty link
ExtractPageOk ==
    /\ idx <= Len(OrganicResults)
    /\ OrganicResults[idx].url # ""
    /\ \E page \in PageInputs : ExtractPage(TRUE, page)
\* the request or the parsing raises
ExtractPageFail == ExtractPage(FALSE, <<>>)

\* the loop is over: analyze_competitor_headings on self.competitor_headings
AnalyzeCompetitorHeadingsStep ==
    /\ pc = "extract"
    /\ idx > Len(OrganicResults)
    /\ headings_analysis' = AnalyzeCompetitorHeadings(competitor_headings)
    /\ pc' = "brief"
    /\ UNCHANGED <<keyword, serp_data, intent_analysis, idx, competitor_headings,
                   content_brief, serp_requests, page_requests>>

\* Step 3 & 5: generate_content_brief, whose value the run returns
GenerateContentBriefStep ==
    /\ pc = "brief"
    /\ content_brief' =
          GenerateContentBrief(keyword, serp_data, intent_analysis, headings_analysis)
    /\ pc' = "done"
    /\ UNCHANGED <<keyword, serp_data, intent_analysis, idx, competitor_headings,
                   headings_analysis, serp_requests, page_requests>>

Next ==
    \/ CollectSerpOk
    \/ CollectSerpFail
    \/ AnalyzeSearchIntentStep
    \/ ExtractPageOk
    \/ ExtractPageFail
    \/ AnalyzeCompetitorHeadingsStep
    \/ GenerateContentBriefStep

Spec == Init /\ [][Next]_vars

(***************************************************************************)
(* analyze_search_intent on its own, over a wider range of organic results *)
(***************************************************************************)
MaxIntentResults == 3

\* results whose texts tie categories, hit one category twice, hit several
\* categories with one keyword, match across the title/description join and
\* inside a longer word, or match nothing
IntentResultInputs ==
    {Result(<<"H","o","w">>, <<"t","o"," ","b","u","y">>, UrlA),
     Result(<<"B","e","s","t"," ","L","a","p","t","o","p"," ","R","e","v","i","e","w">>, <<>>, UrlB),
     Result(<<"L","o","g","i","n">>, <<"o","f","f","i","c","i","a","l"," ","a","p","p"," ","d","o","w","n","l","o","a","d">>, UrlA),
     Result(<<"c","h","e","a","p"," ","d","e","a","l">>, <<"P","r","i","c","e">>, UrlB),
     Result(<<"R","e","v","i","e","w">>, <<"p","r","i","c","e"," ","l","o","g","i","n">>, UrlA),
     Result(<<>>, <<>>, "")}

InitIntent ==
    /\ pc = "intent"
    /\ keyword = RunKeyword
    /\ \E organic \in SeqsUpTo(IntentResultInputs, MaxIntentResults) :
          serp_data = <<CollectSerpData(RunKeyword, organic, <<>>)>>
    /\ intent_analysis = <<>>
    /\ idx = 1
    /\ competitor_headings = <<>>
    /\ headings_analysis = <<>>
    /\ content_brief = <<>>
    /\ serp_requests = 1
    /\ page_requests = <<>>

SpecIntent == InitIntent /\ [][AnalyzeSearchIntentStep]_vars

(***************************************************************************)
(* generate_content_brief on its own, over wider ranges of its arguments   *)
(***************************************************************************)
\* the labels the helpers are given: the four intents and one they do not know,
\* which power_words.get and the final else branches accept
LabelInputs == IntentSet \cup {"other"}

\* the state in which generate_content_brief is called with these arguments
BriefCall(kw, organic, related, label, dict) ==
    LET serp == CollectSerpData(kw, organic, related)
    IN  /\ pc = "brief"
        /\ keyword = kw
        /\ serp_data = <<serp>>
        /\ intent_analysis = <<[AnalyzeSearchIntent(serp) EXCEPT !.dominant_intent = label]>>
        /\ idx = Len(serp.organic_results) + 1
        /\ competitor_headings = dict
        /\ headings_analysis = AnalyzeCompetitorHeadings(dict)
        /\ content_brief = <<>>
        /\ serp_requests = 1
        /\ page_requests = <<>>

MaxTitleResults == 2
TitleKeywordInputs == {RunKeyword, <<"L","a","p","t","o","p">>}
TitleResultInputs ==
    {Result(<<"B","e","s","t"," ","S","E","O"," ","T","i","p","s">>, <<>>, UrlA),
     Result(<<"l","a","p","t","o","p"," ","d","e","a","l","s"," ","3","d">>, <<>>, UrlB),
     Result(<<"T","i","p","s">>, <<>>, UrlA)}

\* the title: keywords, labels and competitor titles vary
InitTitle ==
    \E kw \in TitleKeywordInputs, label \in LabelInputs,
       organic \in SeqsUpTo(TitleResultInputs, MaxTitleResults) :
        BriefCall(kw, organic, <<>>, label, <<>>)

MaxPad == 80
\* a keyword of n characters
Pad(n) == [i \in 1..n |-> "k"]
MetaOrganicInputs ==
    {<<>>,
     <<Result(<<>>, <<"r","a","n","k">>, UrlA)>>,
     <<Result(<<>>, <<"h","o","w"," ","t","o"," ","r","a","n","k"," ","h","i","g","h","e","r">>, UrlA), Result(<<>>, <<"r","a","n","k"," ","t","o","o","l","s">>, UrlB)>>}

\* the meta description: keyword lengths, labels and description words vary
InitMeta ==
    \E n \in 0..MaxPad, label \in LabelInputs, organic \in MetaOrganicInputs :
        BriefCall(Pad(n), organic, <<>>, label, <<>>)

MaxPaa == 6
PaaStrings == {<<"w","h","a","t"," ","i","s"," ","s","e","o">>, <<"w","h","y"," ","s","e","o">>}

\* the FAQ section: the PAA list varies
InitFaq ==
    \E related \in SeqsUpTo(PaaStrings, MaxPaa) :
        BriefCall(RunKeyword, <<>>, related, "informational", <<>>)

MaxH2 == 3
H2Inputs == {<<"C","o","n","c","l","u","s","i","o","n">>, <<"I","n","t","r","o","d","u","c","t","i","o","n"," ","t","o"," ","s","e","o"," ","t","i","p","s">>, <<"P","r","i","c","i","n","g">>, <<"P","r","o","s"," ","a","n","d"," ","C","o","n","s">>}
\* seven distinct h2 headings, more than the five the outline takes
LongH2List ==
    <<<<"P","r","i","c","i","n","g">>, <<"S","e","t","u","p">>, <<"T","o","o","l","s">>, <<"A","u","d","i","t">>, <<"L","i","n","k","s">>, <<"C","o","n","c","l","u","s","i","o","n">>, <<"S","p","e","e","d">>>>

\* the competitor_headings of one fetched page with these h2 headings
OnePage(h2s) == <<[url |-> UrlA, headings |-> [EmptyHeadings EXCEPT !["h2"] = h2s]]>>

\* the outline: labels and the pooled h2 headings vary
InitOutline ==
    \E label \in LabelInputs,
       dict \in {<<>>, OnePage(LongH2List)} \cup {OnePage(h2s) : h2s \in SeqsUpTo(H2Inputs, MaxH2)} :
        BriefCall(RunKeyword, <<Result(<<>>, <<>>, UrlA)>>, <<>>, label, dict)

SpecTitle == InitTitle /\ [][GenerateContentBriefStep]_vars
SpecMeta == InitMeta /\ [][GenerateContentBriefStep]_vars
SpecFaq == InitFaq /\ [][GenerateContentBriefStep]_vars
SpecOutline == InitOutline /\ [][GenerateContentBriefStep]_vars

(***************************************************************************)
(* extract_headings_from_url on its own, over pages of interleaved tags    *)
(***************************************************************************)
MaxTags == 3
\* heading tags a page may hold: every level, texts with outer and inner white
\* space, an empty text and a text of white space only
TagInputs ==
    {Tag("h2", <<" ","I","n","t","r","o"," ">>), Tag("h1", <<"S","E","O">>), Tag("h3", <<" "," ">>), Tag("h2", <<>>),
     Tag("h4", <<"\t", "a", " ", " ", "b", "\n">>), Tag("h5", <<"F","a","q">>), Tag("h6", <<"S","E","O">>)}

\* the loop of extract_competitor_headings about to fetch the page of one result
InitExtract ==
    LET serp == CollectSerpData(RunKeyword, <<Result(<<"S","E","O"," ","g","u","i","d","e">>, <<>>, UrlA)>>, <<>>)
    IN  /\ pc = "extract"
        /\ keyword = RunKeyword
        /\ serp_data = <<serp>>
        /\ intent_analysis = <<AnalyzeSearchIntent(serp)>>
        /\ idx = 1
        /\ competitor_headings = <<>>
        /\ headings_analysis = <<>>
        /\ content_brief = <<>>
        /\ serp_requests = 1
        /\ page_requests = <<>>

\* the page is fetched and parsed, whatever heading tags it holds
ExtractAnyPage == \E page \in SeqsUpTo(TagInputs, MaxTags) : ExtractPage(TRUE, page)

SpecExtract == InitExtract /\ [][ExtractAnyPage]_vars

(***************************************************************************)
(* analyze_competitor_headings and the brief on its result, over the h2    *)
(* headings of the pages fetched                                           *)
(***************************************************************************)
MaxPoolH2 == 2
PoolH2Inputs == {<<"P","r","i","c","i","n","g">>, <<"T","o","o","l","s">>, <<"C","o","n","c","l","u","s","i","o","n">>}
\* eleven distinct h2 headings over two pages, the last of them met twice: more
\* than the ten that most_common keeps
ManyH2s ==
    <<<<<<"P","r","i","c","i","n","g">>, <<"S","e","t","u","p">>, <<"T","o","o","l","s">>, <<"A","u","d","i","t">>, <<"L","i","n","k","s">>, <<"S","p","e","e","d">>>>,
      <<<<"C","o","n","t","e","n","t">>, <<"S","c","h","e","m","a">>, <<"I","m","a","g","e","s">>, <<"C","r","a","w","l">>, <<"I","n","d","e","x">>, <<"I","n","d","e","x">>>>>>
PoolUrls == <<UrlA, UrlB>>

\* a page whose heading tags are these h2 headings
PageOf(h2s) == Explicit([i \in DOMAIN h2s |-> Tag("h2", h2s[i])])

\* the state in which the loop of extract_competitor_headings has fetched one page
\* per result, page i holding the h2 headings pages[i]
PoolCall(pages) ==
    LET organic == Explicit([i \in DOMAIN pages |-> Result(<<"S","E","O"," ","g","u","i","d","e">>, <<>>, PoolUrls[i])])
        serp == CollectSerpData(RunKeyword, organic, <<>>)
        requests == Explicit([i \in DOMAIN pages |->
                        [url |-> PoolUrls[i], ok |-> TRUE, page |-> PageOf(pages[i]),
                         headings |-> ExtractHeadingsFromUrl(TRUE, PageOf(pages[i]))]])
    IN  /\ pc = "extract"
        /\ keyword = RunKeyword
        /\ serp_data = <<serp>>
        /\ intent_analysis = <<AnalyzeSearchIntent(serp)>>
        /\ idx = Len(organic) + 1
        /\ competitor_headings =
              Explicit([i \in DOMAIN pages |->
                          [url |-> requests[i].url, headings |-> requests[i].headings]])
        /\ headings_analysis = <<>>
        /\ content_brief = <<>>
        /\ serp_requests = 1
        /\ page_requests = requests

InitPool ==
    \E pages \in {<<>>, ManyH2s}
                 \cup {<<a, b>> : a, b \in SeqsUpTo(PoolH2Inputs, MaxPoolH2)} :
        PoolCall(pages)

NextPool == AnalyzeCompetitorHeadingsStep \/ GenerateContentBriefStep

SpecPool == InitPool /\ [][NextPool]_vars

(***************************************************************************)
(* Properties                                                              *)
(***************************************************************************)
\* the run has returned
Done == pc = "done"
\* the SERP request was sent and collect_serp_data returned None
SerpFailed == serp_requests >= 1 /\ serp_data = <<>>
\* the loop of extract_competitor_headings is over
LoopOver == pc \in {"brief", "done"} /\ serp_data # <<>>
Brief == content_brief[1]
Analysis == intent_analysis[1]

\* C1: when the fetch or parse of a competitor page fails, that page's entry is the
\* empty heading set, the run is not aborted, and every other organic result's page is
\* still fetched and recorded: once the loop is over and some page has failed, every
\* result was requested, in order, and the entry of its link holds what
\* extract_headings_from_url returned for it (the empty set for a failed page).
C1_FailedPageIsolated ==
    (LoopOver /\ \E i \in DOMAIN page_requests : ~page_requests[i].ok) =>
        /\ Len(page_requests) = Len(OrganicResults)
        /\ \A i \in DOMAIN page_requests :
              /\ page_requests[i].url = OrganicResults[i].url
              /\ ~page_requests[i].ok => page_requests[i].headings = EmptyHeadings
              /\ DictHas(competitor_headings, page_requests[i].url)
              /\ DictGet(competitor_headings, page_requests[i].url) = page_requests[i].headings

\* What holds of the code instead: the dict is keyed by link, so the entry of a link
\* holds what the last request to that link returned.
C1_LastFetchWins ==
    LoopOver =>
        /\ Len(page_requests) = Len(OrganicResults)
        /\ \A i \in DOMAIN page_requests :
              (\A j \in DOMAIN page_requests : j > i => page_requests[j].url # page_requests[i].url)
              => DictGet(competitor_headings, page_requests[i].url) = page_requests[i].headings

\* C2: when the SERP provider call fails, the run ends with no brief; the SERP request
\* was sent exactly once, no competitor page is fetched and neither the intent analysis
\* nor the brief assembly happens.
C2_SerpFailureEndsRun ==
    /\ serp_requests <= 1
    /\ SerpFailed =>
          /\ Done
          /\ serp_requests = 1
          /\ content_brief = <<>>
          /\ page_requests = <<>>
          /\ intent_analysis = <<>>
          /\ headings_analysis = <<>>

\* the run ended on a failed SERP request
C2_Witness == Done /\ SerpFailed

\* C3: within one run each organic result's page is requested once, in result order,
\* over the one transport the code has (no fallback request exists); a failed page is
\* not requested again.
C3_OneFetchPerResult ==
    /\ Len(page_requests) = idx - 1
    /\ Len(page_requests) <= Len(OrganicResults)
    /\ \A i \in DOMAIN page_requests : page_requests[i].url = OrganicResults[i].url

\* a run in which the first page failed and the second was fetched after it
C3_Witness ==
    /\ Done
    /\ Len(page_requests) = 2
    /\ ~page_requests[1].ok
    /\ page_requests[2].ok

\* the SERP answered with no organic result and no related question
EmptySerp ==
    /\ serp_data # <<>>
    /\ serp_data[1].organic_results = <<>>
    /\ serp_data[1].paa_questions = <<>>

\* [section["h2"] for section in sections]
H2Titles(sections) == [i \in DOMAIN sections |-> sections[i].h2]

\* C4 as stated: on an empty SERP the run yields a brief whose outline holds, after
\* its level-1 node, the Conclusion section only.
C4_MinimalOutline ==
    (Done /\ EmptySerp) =>
        /\ content_brief # <<>>
        /\ H2Titles(Brief.content_outline.sections) = <<<<"C","o","n","c","l","u","s","i","o","n">>>>

\* C4 as the code has it: on an empty SERP the run yields a brief (nothing raises): all
\* scores are zero and the intent is informational, the FAQ has no question, no
\* competitor heading is reported, and the outline is the h1 followed by the
\* informational template: Introduction, What Is, Benefits, Common Challenges, Conclusion.
C4_EmptySerpTemplateOutline ==
    (Done /\ EmptySerp) =>
        /\ content_brief # <<>>
        /\ Brief.search_intent_analysis.dominant_intent = "informational"
        /\ \A intent \in IntentSet : Brief.search_intent_analysis.intent_scores[intent] = 0
        /\ Brief.faq_section.questions = <<>>
        /\ Brief.common_headings = <<>>
        /\ Brief.content_outline.h1 = <<"T","h","e"," ","U","l","t","i","m","a","t","e"," ","G","u","i","d","e"," ","t","o"," ">> \o keyword
        /\ H2Titles(Brief.content_outline.sections) =
              <<<<"I","n","t","r","o","d","u","c","t","i","o","n"," ","t","o"," ">> \o keyword,
                <<"W","h","a","t"," ","I","s"," ">> \o keyword \o <<"?">>,
                <<"B","e","n","e","f","i","t","s"," ","o","f"," ">> \o keyword,
                <<"C","o","m","m","o","n"," ","C","h","a","l","l","e","n","g","e","s"," ","w","i","t","h"," ">> \o keyword,
                <<"C","o","n","c","l","u","s","i","o","n">>>>

\* a run on an empty SERP that returned a brief
C4_Witness == Done /\ EmptySerp /\ content_brief # <<>>

\* the greatest of the four scores
MaxScore(scores) ==
    CHOOSE m \in {scores[intent] : intent \in IntentSet} :
        \A intent \in IntentSet : scores[intent] <= m

\* the first position, in the fixed order, of a score equal to the maximum
FirstMaxIndex(scores) ==
    CHOOSE i \in DOMAIN IntentOrder :
        /\ scores[IntentOrder[i]] = MaxScore(scores)
        /\ \A j \in 1..(i - 1) : scores[IntentOrder[j]] # MaxScore(scores)

\* C5: the dominant intent is the first category, in the order informational,
\* commercial, transactional, navigational, whose score equals the maximum score; with
\* all scores zero it is informational.
C5_FirstMaximumWins ==
    intent_analysis # <<>> =>
        /\ Analysis.dominant_intent = IntentOrder[FirstMaxIndex(Analysis.intent_scores)]
        /\ (\A intent \in IntentSet : Analysis.intent_scores[intent] = 0)
              => Analysis.dominant_intent = "informational"

\* an analysis in which commercial and transactional tie on a positive maximum
C5_Witness ==
    /\ intent_analysis # <<>>
    /\ Analysis.intent_scores["commercial"] > 0
    /\ Analysis.intent_scores["commercial"] = Analysis.intent_scores["transactional"]
    /\ Analysis.intent_scores["commercial"] = MaxScore(Analysis.intent_scores)
    /\ Analysis.intent_scores["informational"] < Analysis.intent_scores["commercial"]
    /\ Analysis.dominant_intent = "commercial"

\* the (result, keyword) pairs of one intent in which the keyword occurs in the
\* result's lower-cased "title meta_description" text
MatchingPairs(results, intent) ==
    {p \in (DOMAIN results) \X (DOMAIN intent_keywords[intent]) :
        Contains(Lower(results[p[1]].title \o <<" ">> \o results[p[1]].meta_description),
                 intent_keywords[intent][p[2]])}

\* C6: each category's score is the number of (snippet, pattern) pairs in which the
\* pattern is one of the category's keywords and occurs in the snippet: two keywords
\* of one category in a snippet add 2, a snippet adds to every category it matches,
\* and no score is negative or rescaled.
C6_ScoreCountsPairs ==
    intent_analysis # <<>> =>
        \A intent \in IntentSet :
            /\ Analysis.intent_scores[intent] =
                  Cardinality(MatchingPairs(OrganicResults, intent))
            /\ Analysis.intent_scores[intent] >= 0

\* an analysis of results of which one holds two keywords of one category and one
\* holds keywords of two categories
C6_Witness ==
    /\ intent_analysis # <<>>
    /\ \E i \in DOMAIN OrganicResults, intent \in IntentSet :
          Cardinality({p \in MatchingPairs(OrganicResults, intent) : p[1] = i}) >= 2
    /\ \E i \in DOMAIN OrganicResults :
          /\ \E p \in MatchingPairs(OrganicResults, "informational") : p[1] = i
          /\ \E p \in MatchingPairs(OrganicResults, "transactional") : p[1] = i

\* the suffix the title would take from the intent label alone
LabelSuffix(label) ==
    CASE label = "informational" -> <<"C","o","m","p","l","e","t","e"," ","G","u","i","d","e">>
      [] label = "commercial" -> <<"T","o","p"," ","P","i","c","k","s",","," ","C","o","m","p","a","r","i","s","o","n","s"," ","&"," ","F","A","Q","s">>
      [] label = "transactional" -> <<"P","r","i","c","i","n","g",","," ","O","p","t","i","o","n","s"," ","&"," ","H","o","w"," ","t","o"," ","C","h","o","o","s","e">>
      [] label = "navigational" -> <<"E","v","e","r","y","t","h","i","n","g"," ","Y","o","u"," ","N","e","e","d"," ","t","o"," ","K","n","o","w">>
      [] OTHER -> <<"C","o","m","p","l","e","t","e"," ","G","u","i","d","e">>

\* C7 as stated: the title is the keyword, ": " and a suffix looked up from the intent
\* label alone, whatever the competitor titles hold.
C7_TitleFromLabelAlone ==
    (Done /\ content_brief # <<>>) =>
        Brief.title_suggestion =
            keyword \o <<":"," ">> \o LabelSuffix(Brief.search_intent_analysis.dominant_intent)

\* the first word of the title, looked up from the label
LabelPowerWord(label) ==
    CASE label = "informational" -> <<"U","l","t","i","m","a","t","e">>
      [] label = "commercial" -> <<"B","e","s","t">>
      [] label = "transactional" -> <<"B","u","y">>
      [] label = "navigational" -> <<"O","f","f","i","c","i","a","l">>
      [] OTHER -> <<"G","u","i","d","e">>

\* the words, among the three most common words of the competitor titles, that are
\* not a word of the keyword (case ignored)
FreeTitleWords ==
    LET top == Analysis.common_title_words
        kws == Split(keyword)
    IN  SelectSeq([i \in 1..(IF Len(top) < 3 THEN Len(top) ELSE 3) |-> top[i].key],
                  LAMBDA w : \A k \in DOMAIN kws : Lower(kws[k]) # Lower(w))

\* C7 as the code has it: the title starts with a power word looked up from the intent
\* label alone (Ultimate, Best, Buy, Official; Guide for an unknown label) and holds
\* the keyword followed by ": "; the rest comes from the competitor titles: with no
\* common title word outside the keyword it is "{power} Guide to {keyword}: Everything
\* You Need to Know", else "{power} {Word1} for {keyword}: {Word2 or Complete} Guide".
C7_TitleFromLabelAndTitles ==
    (Done /\ content_brief # <<>>) =>
        LET power == LabelPowerWord(Brief.search_intent_analysis.dominant_intent)
            words == FreeTitleWords
        IN  Brief.title_suggestion =
                IF words = <<>>
                THEN power \o <<" ","G","u","i","d","e"," ","t","o"," ">> \o keyword \o <<":"," ","E","v","e","r","y","t","h","i","n","g"," ","Y","o","u"," ","N","e","e","d"," ","t","o"," ","K","n","o","w">>
                ELSE power \o <<" ">> \o TitleCase(words[1]) \o <<" ","f","o","r"," ">> \o keyword \o <<":"," ">>
                     \o (IF Len(words) >= 2 THEN TitleCase(words[2]) ELSE <<"C","o","m","p","l","e","t","e">>)
                     \o <<" ","G","u","i","d","e">>

\* a brief for an unknown label whose title takes two words from the competitor titles
C7_Witness ==
    /\ Done
    /\ content_brief # <<>>
    /\ Brief.search_intent_analysis.dominant_intent = "other"
    /\ Len(FreeTitleWords) >= 2

\* C8: the meta description has at most 160 characters; a template longer than 160
\* characters is cut to its first 157 characters followed by "...", a shorter one is
\* returned unchanged.
C8_MetaDescriptionCapped ==
    (Done /\ content_brief # <<>>) =>
        LET template == MetaTemplate(keyword, Analysis)
            meta == Brief.meta_description_suggestion
        IN  /\ Len(meta) <= 160
            /\ Len(template) > 160 =>
                  /\ Len(meta) = 160
                  /\ \A i \in 1..157 : meta[i] = template[i]
                  /\ \A i \in 158..160 : meta[i] = "."
            /\ Len(template) <= 160 => meta = template

\* a brief whose template was one character over the limit
C8_Witness ==
    /\ Done
    /\ content_brief # <<>>
    /\ Len(MetaTemplate(keyword, Analysis)) = 161
    /\ Analysis.common_description_words # <<>>

\* whether the brief holds a FAQ section
FaqPresent == "faq_section" \in DOMAIN Brief
\* whether it holds one with a question in it
FaqShown == FaqPresent /\ Brief.faq_section.questions # <<>>

\* C9 as stated: the People-Also-Ask section is in the brief if and only if the PAA
\* list is not empty, and then holds the first min(15, n) PAA strings in order. A
\* section with no question is read as absent, the reading kindest to the claim.
C9_FaqIffPaaCap15 ==
    (Done /\ content_brief # <<>>) =>
        LET paa == serp_data[1].paa_questions
        IN  /\ FaqShown <=> paa # <<>>
            /\ FaqShown =>
                  /\ Len(Brief.faq_section.questions) = (IF Len(paa) < 15 THEN Len(paa) ELSE 15)
                  /\ \A i \in DOMAIN Brief.faq_section.questions :
                        Brief.faq_section.questions[i] = paa[i]

\* C9 as the code has it: the FAQ section is always in the brief, titled "Frequently
\* Asked Questions"; its question list is empty if and only if the PAA list is, and
\* holds the first min(5, n) PAA strings in their original order.
C9_FaqAlwaysCap5 ==
    (Done /\ content_brief # <<>>) =>
        LET paa == serp_data[1].paa_questions
            questions == Brief.faq_section.questions
        IN  /\ FaqPresent
            /\ Brief.faq_section.h2 = <<"F","r","e","q","u","e","n","t","l","y"," ","A","s","k","e","d"," ","Q","u","e","s","t","i","o","n","s">>
            /\ questions = <<>> <=> paa = <<>>
            /\ Len(questions) = (IF Len(paa) < 5 THEN Len(paa) ELSE 5)
            /\ \A i \in DOMAIN questions : questions[i] = paa[i]

\* a brief made from six PAA strings, not all equal
C9_Witness ==
    /\ Done
    /\ content_brief # <<>>
    /\ Len(serp_data[1].paa_questions) = 6
    /\ serp_data[1].paa_questions[5] # serp_data[1].paa_questions[6]

\* C10 as stated: the outline has exactly one level-1 node, it comes first, and its
\* text is the brief's title.
C10_H1IsTitle ==
    (Done /\ content_brief # <<>>) =>
        LET nodes == OutlineNodes(Brief.content_outline)
        IN  /\ nodes[1].level = 1
            /\ \A i \in 2..Len(nodes) : nodes[i].level # 1
            /\ nodes[1].title = Brief.title_suggestion

\* C10 as the code has it: the outline has exactly one level-1 node, it comes first,
\* and its text is "The Ultimate Guide to {keyword}" for every intent label and every
\* set of competitor headings, which is never the brief's title suggestion.
C10_H1IsUltimateGuide ==
    (Done /\ content_brief # <<>>) =>
        LET nodes == OutlineNodes(Brief.content_outline)
        IN  /\ nodes[1].level = 1
            /\ \A i \in 2..Len(nodes) : nodes[i].level \in {2, 3}
            /\ nodes[1].title = <<"T","h","e"," ","U","l","t","i","m","a","t","e"," ","G","u","i","d","e"," ","t","o"," ">> \o keyword
            /\ nodes[1].title # Brief.title_suggestion

\* a commercial brief whose outline took sections from the competitor headings
C10_Witness ==
    /\ Done
    /\ content_brief # <<>>
    /\ Brief.search_intent_analysis.dominant_intent = "commercial"
    /\ Len(Brief.content_outline.sections) > 6

\* the last two nodes of the outline as the display walks it
LastNodes(nodes) == SubSeq(nodes, Len(nodes) - 1, Len(nodes))

ClosingTitle(label) ==
    CASE label = "informational" -> <<"C","o","n","c","l","u","s","i","o","n">>
      [] label = "commercial" -> <<"F","i","n","a","l"," ","R","e","c","o","m","m","e","n","d","a","t","i","o","n">>
      [] label = "transactional" -> <<"B","e","s","t"," ","V","a","l","u","e"," ","f","o","r"," ","M","o","n","e","y">>
      [] OTHER -> <<"G","e","t","t","i","n","g"," ","S","t","a","r","t","e","d">>

HasInk(text) == \E k \in DOMAIN text : ~IsSpace(text[k])
\* the positions of a page that hold a tag of this level with such a text
InkedAt(page, level) == {i \in DOMAIN page : page[i].tag = level /\ HasInk(page[i].text)}
\* the k-th of a set of positions, counted from the first
Nth(positions, k) == CHOOSE i \in positions : Cardinality({j \in positions : j < i}) = k - 1

\* C12: for a page whose heading tags h1..h6 come in any interleaving, the extractor's
\* output holds the headings level by level, h1 to h6; each level lists, in document
\* order, the stripped text of every tag of that level whose text is not empty or white
\* space only, and no listed heading is empty or begins or ends with white space.
C12_GroupedByLevelNoBlank ==
    \A r \in DOMAIN page_requests :
        page_requests[r].ok =>
            LET page == page_requests[r].page
                headings == page_requests[r].headings
            IN  /\ DOMAIN headings = LevelSet
                /\ \A level \in LevelSet :
                      /\ Len(headings[level]) = Cardinality(InkedAt(page, level))
                      /\ \A k \in DOMAIN headings[level] :
                            LET text == headings[level][k]
                            IN  /\ text = Strip(page[Nth(InkedAt(page, level), k)].text)
                                /\ text # <<>>
                                /\ ~IsSpace(text[1])
                                /\ ~IsSpace(text[Len(text)])

\* a page fetched with an h2 before an h1 and a heading of white space only between
\* two headings of one level
C12_Witness ==
    \E r \in DOMAIN page_requests :
        /\ page_requests[r].ok
        /\ page_requests[r].page =
              <<Tag("h2", <<" ","I","n","t","r","o"," ">>), Tag("h1", <<"S","E","O">>), Tag("h2", <<>>)>>
        /\ page_requests[r].headings["h2"] = <<<<"I","n","t","r","o">>>>
        /\ page_requests[r].headings["h1"] = <<<<"S","E","O">>>>

\* the loop over the pages is over and analyze_competitor_headings has returned
Pooled == pc \in {"brief", "done"}
\* the pooled h2 headings of the competitor pages
PooledH2 == IF headings_analysis = <<>> THEN <<>> ELSE headings_analysis[1].all_headings["h2"]
\* the h2 themes analyze_competitor_headings derives from them
RankedH2 ==
    IF headings_analysis # <<>> /\ "h2" \in DOMAIN headings_analysis[1].common_headings
    THEN headings_analysis[1].common_headings["h2"]
    ELSE <<>>
\* the distinct entries of a list, each at the place it is first seen
DistinctFirstSeen(pool) ==
    LET firsts == {i \in DOMAIN pool : \A j \in 1..(i - 1) : pool[j] # pool[i]}
    IN  [k \in 1..Cardinality(firsts) |-> pool[Nth(firsts, k)]]

\* C13 as stated: the heading themes derived from the pooled competitor headings list
\* each distinct theme exactly once, in first-seen order over the pooled input; an
\* empty pool yields an empty list.
C13_ThemesInFirstSeenOrder ==
    Pooled =>
        /\ Len(RankedH2) = Len(DistinctFirstSeen(PooledH2))
        /\ \A k \in DOMAIN RankedH2 : RankedH2[k].key = DistinctFirstSeen(PooledH2)[k]

Occurrences(pool, h) == Cardinality({i \in DOMAIN pool : pool[i] = h})
FirstSeen(pool, h) == CHOOSE i \in DOMAIN pool : pool[i] = h /\ \A j \in 1..(i - 1) : pool[j] # h
\* a comes before b among the most common: it occurs more often, or as often and first
RanksBefore(pool, a, b) ==
    \/ Occurrences(pool, a) > Occurrences(pool, b)
    \/ Occurrences(pool, a) = Occurrences(pool, b) /\ FirstSeen(pool, a) < FirstSeen(pool, b)

\* C13 as the code has it: the themes are the exactly equal strings of the pooled h2
\* headings, each listed once with the number of its occurrences, ordered by that
\* number from the highest, equal numbers in first-seen order, and cut to the first
\* ten; the outline takes the first five of them; an empty pool yields no theme.
C13_ThemesByCountThenFirstSeen ==
    Pooled =>
        LET pool == PooledH2
            ranked == RankedH2
            themes == CommonH2s(headings_analysis)
            distinct == {pool[i] : i \in DOMAIN pool}
        IN  /\ pool = <<>> => ranked = <<>> /\ themes = <<>>
            /\ Len(ranked) = (IF Cardinality(distinct) < 10 THEN Cardinality(distinct) ELSE 10)
            /\ \A i \in DOMAIN ranked :
                  /\ ranked[i].key \in distinct
                  /\ ranked[i].count = Occurrences(pool, ranked[i].key)
                  /\ \A j \in DOMAIN ranked :
                        i < j => RanksBefore(pool, ranked[i].key, ranked[j].key)
                  /\ \A h \in distinct :
                        (\A j \in DOMAIN ranked : ranked[j].key # h)
                        => RanksBefore(pool, ranked[i].key, h)
            /\ Len(themes) = (IF Len(ranked) < 5 THEN Len(ranked) ELSE 5)
            /\ \A i \in DOMAIN themes : themes[i] = ranked[i].key

\* the run returned a brief from a pool whose first heading is met once and whose
\* second twice: the second is the first theme
C13_Witness ==
    /\ Done
    /\ content_brief # <<>>
    /\ PooledH2 = <<<<"P","r","i","c","i","n","g">>, <<"T","o","o","l","s">>, <<"T","o","o","l","s">>>>
    /\ CommonH2s(headings_analysis) = <<<<"T","o","o","l","s">>, <<"P","r","i","c","i","n","g">>>>

\* the headings of the pages fetched, page after page in the order of the requests
RECURSIVE RankPool(_, _, _)
RankPool(requests, level, i) ==
    IF i > Len(requests) THEN <<>>
    ELSE requests[i].headings[level] \o RankPool(requests, level, i + 1)

\* C14: in every run the SERP request completes before any competitor page is fetched,
\* the pages are fetched in organic rank order, and the headings of all pages are
\* pooled only after the fetch of the last page has completed, page after page in that
\* same rank order.
C14_PooledInRankOrderAfterLastFetch ==
    /\ page_requests # <<>> => serp_requests = 1 /\ serp_data # <<>>
    /\ \A i \in DOMAIN page_requests :
          i <= Len(OrganicResults) /\ page_requests[i].url = OrganicResults[i].url
    /\ headings_analysis # <<>> =>
          /\ Len(page_requests) = Len(OrganicResults)
          /\ \A level \in LevelSet :
                headings_analysis[1].all_headings[level] = RankPool(page_requests, level, 1)

\* What holds of the code: the steps are ordered as C14 says.
C14_StepsOrdered ==
    /\ page_requests # <<>> => serp_requests = 1 /\ serp_data # <<>>
    /\ \A i \in DOMAIN page_requests :
          i <= Len(OrganicResults) /\ page_requests[i].url = OrganicResults[i].url
    /\ (headings_analysis # <<>> \/ pc \in {"brief", "done"}) =>
          Len(page_requests) = Len(OrganicResults)

\* What holds of the code: one page is fetched per step and none is fetched once the
\* headings are pooled.
C14_OneFetchAtATime ==
    [][/\ Len(page_requests') <= Len(page_requests) + 1
       /\ SubSeq(page_requests', 1, Len(page_requests)) = page_requests
       /\ pc \in {"brief", "done"} => page_requests' = page_requests]_vars

\* What holds of the code: the pool follows the dict, which has one entry per link, at
\* the place of the link's first request and holding what its last request returned.
C14_PooledInDictOrder ==
    headings_analysis # <<>> =>
        /\ \A level \in LevelSet :
              headings_analysis[1].all_headings[level] = RankPool(competitor_headings, level, 1)
        /\ \A i \in DOMAIN competitor_headings :
              /\ \A j \in DOMAIN competitor_headings :
                    i # j => competitor_headings[i].url # competitor_headings[j].url
              /\ \E r \in DOMAIN page_requests :
                    /\ page_requests[r].url = competitor_headings[i].url
                    /\ page_requests[r].headings = competitor_headings[i].headings
                    /\ \A q \in DOMAIN page_requests :
                          q > r => page_requests[q].url # page_requests[r].url

\* C15: in every outline the level-2 section titles are pairwise distinct, for every
\* intent label and every list of common competitor h2 headings: a competitor heading
\* is added only if no section has its title, and no later step adds a section whose
\* title is already present.
C15_SectionTitlesDistinct ==
    (Done /\ content_brief # <<>>) =>
        LET sections == Brief.content_outline.sections
        IN  \A i, j \in DOMAIN sections : i # j => sections[i].h2 # sections[j].h2

\* What holds of the code: the titles are pairwise distinct up to the closing section,
\* which is appended without that test.
C15_TitlesDistinctBeforeClosing ==
    (Done /\ content_brief # <<>>) =>
        LET sections == Brief.content_outline.sections
        IN  \A i, j \in 1..(Len(sections) - 1) : i # j => sections[i].h2 # sections[j].h2
====
